---- MODULE Spec2Model ----
(***************************************************************************)
(* Model of the snake game session (src/main.py, src/enhancements.py,     *)
(* src/configs.py): the SnakeGame object, its run loop and the methods    *)
(* the loop calls.                                                        *)
(*                                                                        *)
(* Conventions                                                            *)
(*  - positions are pixel pairs <<x, y>> as in the source;                *)
(*  - the board is scaled down from 800 x 600 to SCREEN_WIDTH x           *)
(*    SCREEN_HEIGHT pixels (same BLOCK_SIZE) so that walls, food and the  *)
(*    snake's own body are all within reach of a bounded exploration;     *)
(*  - speeds are kept in half units (Spd(5) is the speed 5) because the   *)
(*    source adds 0.5 per apple;                                          *)
(*  - None is NoTime for a time stamp and a record with set = FALSE for   *)
(*    a dictionary;                                                       *)
(*  - pc is the position of the run loop inside one iteration.            *)
(***************************************************************************)
EXTENDS Integers, Sequences, FiniteSets, TLC

VARIABLES
    pc,                    \* position in SnakeGame.run
    now,                   \* pygame.time.get_ticks(), milliseconds
    difficulty,            \* constructor argument of SnakeGame
    game_state,
    snake,                 \* sequence of positions, head is the last element
    direction,
    apple,
    power_ups,
    power_up_spawn_timer,
    is_invincible,
    invincibility_timer,
    score,
    high_score,
    lives,
    current_speed,         \* half units
    achievements,
    challenge_mode,
    challenge_start_time,
    current_mission,
    obstacles,
    games_since_challenge,
    game_over_buttons,     \* hasattr(self, 'game_over_buttons')
    high_scores,           \* content of highscores.json
    collision,             \* branch taken by the last check_collision
    last_move,             \* direction used by the last move_snake of this life
    reward_grants,         \* per achievement, how often its reward was added
    submitted,             \* the entries save_score was called with, in call order
    sounds                 \* keys of sound_manager.sounds: the sounds that loaded

vars == <<pc, now, difficulty, game_state, snake, direction, apple, power_ups,
          power_up_spawn_timer, is_invincible, invincibility_timer, score,
          high_score, lives, current_speed, achievements, challenge_mode,
          challenge_start_time, current_mission, obstacles,
          games_since_challenge, game_over_buttons, high_scores,
          collision, last_move, reward_grants, submitted, sounds>>

----------------------------------------------------------------------------
(* Bounds of the exploration *)

\* clock horizon in frames: run starts no iteration of its loop once now
\* has reached MaxFrames * FrameMs
MaxFrames == 4
\* longest event queue one handle_events call drains
MaxEvents == 2
\* apples a session eats before the exploration leaves it
MaxApples == 2
\* restarts from GAME_OVER explored
MaxRestarts == 2

----------------------------------------------------------------------------
(* GameConfig and the loaded configuration *)

SCREEN_WIDTH == 80
SCREEN_HEIGHT == 40
BLOCK_SIZE == 20

\* a speed of the source in half units
Spd(n) == 2 * n

MAX_SPEED == Spd(15)
gameplay_initial_speed == Spd(5)
gameplay_max_speed == Spd(15)
gameplay_initial_lives == 3

DIFFICULTY_LEVELS ==
    [EASY   |-> [initial_speed |-> Spd(3), lives |-> 5, apple_score |-> 1],
     MEDIUM |-> [initial_speed |-> Spd(5), lives |-> 3, apple_score |-> 2],
     HARD   |-> [initial_speed |-> Spd(7), lives |-> 1, apple_score |-> 3]]

\* the constructor arguments explored: the tier main() passes and one other
Difficulties == {"MEDIUM", "HARD"}

difficulty_config(d) ==
    IF d \in DOMAIN DIFFICULTY_LEVELS THEN DIFFICULTY_LEVELS[d]
    ELSE DIFFICULTY_LEVELS["MEDIUM"]

\* milliseconds one drawn frame takes (clock.tick) in the exploration
FrameMs == 2000

Directions == {"UP", "DOWN", "LEFT", "RIGHT"}

Max(a, b) == IF a >= b THEN a ELSE b
Min(a, b) == IF a <= b THEN a ELSE b
Abs(a) == IF a >= 0 THEN a ELSE 0 - a

\* random.randint(0, W // B - 1) * B
GridXs == {i * BLOCK_SIZE : i \in 0 .. (SCREEN_WIDTH \div BLOCK_SIZE - 1)}
GridYs == {j * BLOCK_SIZE : j \in 0 .. (SCREEN_HEIGHT \div BLOCK_SIZE - 1)}
Cells == {<<x, y>> : x \in GridXs, y \in GridYs}

\* center_x, center_y of reset_game and handle_collision
CenterX == SCREEN_WIDTH \div 2
CenterY == SCREEN_HEIGHT \div 2

NoTime == -1

\* "No challenge", "no mission": the attribute is None
NoChallenge ==
    [set |-> FALSE, time_limit |-> 0, target_score |-> 0, obstacles |-> FALSE,
     moving_walls |-> FALSE, special_apple_spawn |-> FALSE]
NoMission ==
    [set |-> FALSE, description |-> "None", goal |-> 0, current_progress |-> 0,
     reward |-> 0]

----------------------------------------------------------------------------
(* Food *)

StaticFood(x, y) ==
    [moving |-> FALSE, x |-> x, y |-> y, direction |-> "NONE", move_counter |-> 0]

\* MovingFood.__init__ (speed is always the default 2)
MovingFood(x, y, d) ==
    [moving |-> TRUE, x |-> x, y |-> y, direction |-> d, move_counter |-> 0]

MovingFoodSpeed == 2
MovingFoodPeriod == 30

\* MovingFood.update with d the direction random.choice returns when the
\* counter is a multiple of the period
MovingFoodUpdate(f, d) ==
    LET dir == IF f.move_counter % MovingFoodPeriod = 0 THEN d ELSE f.direction
        ny == IF dir = "UP" THEN Max(0, f.y - MovingFoodSpeed)
              ELSE IF dir = "DOWN"
                   THEN Min(SCREEN_HEIGHT - BLOCK_SIZE, f.y + MovingFoodSpeed)
                   ELSE f.y
        nx == IF dir = "LEFT" THEN Max(0, f.x - MovingFoodSpeed)
              ELSE IF dir = "RIGHT"
                   THEN Min(SCREEN_WIDTH - BLOCK_SIZE, f.x + MovingFoodSpeed)
                   ELSE f.x
    IN [f EXCEPT !.direction = dir, !.x = nx, !.y = ny,
                 !.move_counter = f.move_counter + 1]

\* the cells the random draws of the exploration land on: the cell ahead of
\* the respawned head and a cell of the respawned body
DrawCells ==
    {<<CenterX + BLOCK_SIZE, CenterY>>, <<CenterX - BLOCK_SIZE, CenterY>>}
\* the directions random.choice gives a moving food in the exploration
FoodDirections == {"LEFT"}

\* the values generate_apple can return: a grid cell, static or moving; the
\* snake is not consulted
generate_apple ==
    {StaticFood(c[1], c[2]) : c \in DrawCells}
    \cup {MovingFood(c[1], c[2], d) : c \in DrawCells, d \in FoodDirections}

----------------------------------------------------------------------------
(* Power-ups *)

PowerUpTypes == {"speed_boost", "invincibility", "extra_points", "length_increase"}

SpeedBoostDuration == 5000
InvincibilityDuration == 3000
InvincibilityWindow == 3000
SpeedBoostDelta == Spd(2)
ExtraPoints == 5

\* PowerUp.TYPES[t]['duration']
PowerUpDuration(t) ==
    IF t = "speed_boost" THEN SpeedBoostDuration
    ELSE IF t = "invincibility" THEN InvincibilityDuration
    ELSE 0

\* PowerUp.__init__
PowerUp(x, y, t, time) ==
    [x |-> x, y |-> y, power_type |-> t, creation_time |-> time]

\* is_expired with >= for > : expired already at creation + duration
is_expired_M(pu, time) ==
    /\ PowerUpDuration(pu.power_type) > 0
    /\ time - pu.creation_time >= PowerUpDuration(pu.power_type)

\* PowerUp.is_expired at clock value time
is_expired(pu, time) ==
    /\ PowerUpDuration(pu.power_type) > 0
    /\ time - pu.creation_time > PowerUpDuration(pu.power_type)

SeqToSet(q) == {q[i] : i \in 1 .. Len(q)}

\* the acceptance test without its second half: a cell off the snake
FreeCells_M(s) == {c \in Cells : c \notin SeqToSet(s.snake)}

\* cells generate_power_up accepts: not on the snake, not on a power-up
FreeCells(s) ==
    {c \in Cells :
        /\ c \notin SeqToSet(s.snake)
        /\ ~ \E i \in 1 .. Len(s.power_ups) :
               s.power_ups[i].x = c[1] /\ s.power_ups[i].y = c[2]}

\* generate_power_up with the accepted draw (c, t); the caller deals with the
\* case of no acceptable cell, in which the loop of the source never ends
generate_power_up(s, c, t, time) ==
    [s EXCEPT !.power_ups = Append(@, PowerUp(c[1], c[2], t, time))]

----------------------------------------------------------------------------
(* The session object: the attributes of SnakeGame as one record, so that *)
(* the methods below read like the source (s is self).                    *)

Self ==
    [game_state |-> game_state, snake |-> snake, direction |-> direction,
     apple |-> apple, power_ups |-> power_ups,
     power_up_spawn_timer |-> power_up_spawn_timer,
     is_invincible |-> is_invincible,
     invincibility_timer |-> invincibility_timer, score |-> score,
     high_score |-> high_score, lives |-> lives,
     current_speed |-> current_speed, achievements |-> achievements,
     challenge_mode |-> challenge_mode,
     challenge_start_time |-> challenge_start_time,
     current_mission |-> current_mission, obstacles |-> obstacles,
     games_since_challenge |-> games_since_challenge,
     game_over_buttons |-> game_over_buttons,
     high_scores |-> high_scores, collision |-> collision,
     last_move |-> last_move, difficulty |-> difficulty,
     reward_grants |-> reward_grants, submitted |-> submitted,
     sounds |-> sounds,
     \* not attributes: how the call ended ("NONE": it returned, "EXIT":
     \* sys.exit(), "HANG": a loop that never ends, "CRASH": an exception
     \* nothing catches) and the value it returned
     stop |-> "NONE", ret |-> TRUE]

Assign(t) ==
    /\ game_state' = t.game_state
    /\ snake' = t.snake
    /\ direction' = t.direction
    /\ apple' = t.apple
    /\ power_ups' = t.power_ups
    /\ power_up_spawn_timer' = t.power_up_spawn_timer
    /\ is_invincible' = t.is_invincible
    /\ invincibility_timer' = t.invincibility_timer
    /\ score' = t.score
    /\ high_score' = t.high_score
    /\ lives' = t.lives
    /\ current_speed' = t.current_speed
    /\ achievements' = t.achievements
    /\ challenge_mode' = t.challenge_mode
    /\ challenge_start_time' = t.challenge_start_time
    /\ current_mission' = t.current_mission
    /\ obstacles' = t.obstacles
    /\ games_since_challenge' = t.games_since_challenge
    /\ game_over_buttons' = t.game_over_buttons
    /\ high_scores' = t.high_scores
    /\ collision' = t.collision
    /\ last_move' = t.last_move
    /\ difficulty' = t.difficulty
    /\ reward_grants' = t.reward_grants
    /\ submitted' = t.submitted
    /\ sounds' = t.sounds

\* the three segments reset_game and handle_collision put the snake on
InitialSnake ==
    << <<CenterX - BLOCK_SIZE * 2, CenterY>>,
       <<CenterX - BLOCK_SIZE, CenterY>>,
       <<CenterX, CenterY>> >>

SnakeHead(q) == q[Len(q)]
\* snake[:-1]
Body(q) == SubSeq(q, 1, Len(q) - 1)

\* SnakeGame.reset_game, ap the value generate_apple returns
reset_game(s, ap) ==
    LET a == [s EXCEPT !.snake = InitialSnake,
                       !.direction = "RIGHT",
                       !.last_move = "NONE",
                       !.apple = ap,
                       !.power_ups = << >>,
                       !.power_up_spawn_timer = 0,
                       !.is_invincible = FALSE,
                       !.invincibility_timer = 0]
        b == IF s.game_state # "PAUSED"
             THEN [a EXCEPT
                     !.achievements.longest_snake = Max(@, Len(a.snake)),
                     !.achievements.max_speed_reached = Max(@, s.current_speed),
                     !.high_score = Max(@, s.score),
                     !.score = 0,
                     !.current_speed = gameplay_initial_speed,
                     !.lives = gameplay_initial_lives]
             ELSE a
    IN [b EXCEPT !.game_state = "PLAYING"]

----------------------------------------------------------------------------
(* SoundManager *)

\* the names load_sounds tries to load
SoundFiles == {"eat", "power_up", "game_over"}

\* the lookup without its membership test: self.sounds[sound_name] raises
\* KeyError for a name that did not load
play_sound_M(s, sound_name) ==
    IF sound_name \in s.sounds THEN s ELSE [s EXCEPT !.stop = "CRASH"]

\* SoundManager.play_sound: the sound is played, or a warning is logged;
\* neither touches the session
play_sound(s, sound_name) ==
    IF sound_name \in s.sounds THEN s ELSE s

----------------------------------------------------------------------------
(* HighScoreManager *)

HighScoreKeep == 10

RECURSIVE InsertByScore(_, _)
\* e placed behind every entry whose score is at least e.score
InsertByScore(q, e) ==
    IF q = << >> THEN <<e>>
    ELSE IF q[1].score >= e.score
         THEN <<q[1]>> \o InsertByScore(Tail(q), e)
         ELSE <<e>> \o q

RECURSIVE SortedByScore(_)
\* sorted(q, key=score, reverse=True): stable, descending
SortedByScore(q) ==
    IF q = << >> THEN << >>
    ELSE InsertByScore(SortedByScore(SubSeq(q, 1, Len(q) - 1)), q[Len(q)])

\* the new entry put in front of the loaded list instead of behind it: it
\* sorts ahead of the stored entries of its score
save_score_M(hs, sc, time) ==
    LET all == SortedByScore(<<[score |-> sc, timestamp |-> time]>> \o hs)
    IN SubSeq(all, 1, Min(Len(all), HighScoreKeep))

\* HighScoreManager.save_score on the stored list hs
save_score(hs, sc, time) ==
    LET all == SortedByScore(Append(hs, [score |-> sc, timestamp |-> time]))
    IN SubSeq(all, 1, Min(Len(all), HighScoreKeep))

\* the call HighScoreManager.save_score(sc) made by session s
SaveScoreCall(s, sc, time) ==
    [s EXCEPT !.high_scores = save_score(@, sc, time),
              !.submitted = Append(@, [score |-> sc, timestamp |-> time])]

----------------------------------------------------------------------------
(* handle_events *)

\* what the loop of handle_events distinguishes in an event.  KEY_OTHER is
\* any event that matches no test of the current state or changes nothing of
\* the session: an arrow key going down, a key going up, mouse motion, H and
\* A in GAME_OVER (they open a screen and come back), M in PAUSED (it
\* changes the volume of the sound manager only).  QUIT stands for every
\* way out: the window closing, and ESCAPE or the exit button in GAME_OVER.
EventKinds ==
    {"QUIT", "KEY_SPACE", "KEY_P", "KEY_OTHER", "CLICK_RESTART"}

\* the if/elif chain on pygame.key.get_pressed()
Steer(dir, keys) ==
    IF "UP" \in keys /\ dir # "DOWN" THEN "UP"
    ELSE IF "DOWN" \in keys /\ dir # "UP" THEN "DOWN"
    ELSE IF "LEFT" \in keys /\ dir # "RIGHT" THEN "LEFT"
    ELSE IF "RIGHT" \in keys /\ dir # "LEFT" THEN "RIGHT"
    ELSE dir

\* the restart with its two calls swapped: reset_game, then save_score
Restart_M(s, ap, time) ==
    LET r == reset_game(s, ap)
    IN SaveScoreCall(r, r.score, time)

\* GAME_OVER restart: save_score, then reset_game
Restart(s, ap, time) ==
    reset_game(SaveScoreCall(s, s.score, time), ap)

\* the pass with the steering chain also run in the PAUSED branch
HandleEvent_M(s, ev, keys, ap, time) ==
    IF ev = "QUIT" THEN [s EXCEPT !.stop = "EXIT"]
    ELSE IF s.game_state = "START" THEN
        IF ev = "KEY_SPACE" THEN reset_game(s, ap) ELSE s
    ELSE IF s.game_state = "GAME_OVER" THEN
        IF ev = "CLICK_RESTART" THEN
            IF s.game_over_buttons THEN Restart(s, ap, time) ELSE s
        ELSE IF ev = "KEY_SPACE" THEN Restart(s, ap, time)
        ELSE s
    ELSE IF s.game_state = "PLAYING" THEN
        LET a == IF ev = "KEY_P" THEN [s EXCEPT !.game_state = "PAUSED"] ELSE s
        IN [a EXCEPT !.direction = Steer(s.direction, keys)]
    ELSE IF s.game_state = "PAUSED" THEN
        LET a == IF ev = "KEY_P" THEN [s EXCEPT !.game_state = "PLAYING"] ELSE s
        IN [a EXCEPT !.direction = Steer(s.direction, keys)]
    ELSE s

\* one pass of the for loop of handle_events
HandleEvent(s, ev, keys, ap, time) ==
    IF ev = "QUIT" THEN [s EXCEPT !.stop = "EXIT"]
    ELSE IF s.game_state = "START" THEN
        IF ev = "KEY_SPACE" THEN reset_game(s, ap) ELSE s
    ELSE IF s.game_state = "GAME_OVER" THEN
        IF ev = "CLICK_RESTART" THEN
            IF s.game_over_buttons THEN Restart(s, ap, time) ELSE s
        ELSE IF ev = "KEY_SPACE" THEN Restart(s, ap, time)
        ELSE s
    ELSE IF s.game_state = "PLAYING" THEN
        LET a == IF ev = "KEY_P" THEN [s EXCEPT !.game_state = "PAUSED"] ELSE s
        IN [a EXCEPT !.direction = Steer(s.direction, keys)]
    ELSE IF s.game_state = "PAUSED" THEN
        IF ev = "KEY_P" THEN [s EXCEPT !.game_state = "PLAYING"] ELSE s
    ELSE s

RECURSIVE Drain(_, _, _, _, _)
\* the sessions the for loop can be in after at most n more events, from any
\* of the sessions S; sys.exit() ends the loop
Drain(S, n, keys, ap, time) ==
    IF n = 0 THEN S
    ELSE Drain(S \cup {HandleEvent(t, ev, keys, ap, time) :
                          t \in {x \in S : x.stop = "NONE"}, ev \in EventKinds},
               n - 1, keys, ap, time)

\* SnakeGame.handle_events: every session one call can leave behind, over the
\* event queues of at most MaxEvents events, with the keys held during the
\* call and ap the value generate_apple returns if the call restarts
handle_events(s, keys, ap, time) == Drain({s}, MaxEvents, keys, ap, time)

----------------------------------------------------------------------------
(* GameEnhancements.create_mini_missions: the three missions it draws from *)

EAT_APPLES == "Eat 5 apples without hitting walls"
REACH_MAX_SPEED == "Reach max speed"
COLLECT_POWER_UPS == "Collect 3 power-ups"

create_mini_missions ==
    {[set |-> TRUE, description |-> EAT_APPLES, goal |-> 5,
      current_progress |-> 0, reward |-> 10],
     [set |-> TRUE, description |-> REACH_MAX_SPEED, goal |-> gameplay_max_speed,
      current_progress |-> 0, reward |-> 15],
     [set |-> TRUE, description |-> COLLECT_POWER_UPS, goal |-> 3,
      current_progress |-> 0, reward |-> 20]}

----------------------------------------------------------------------------
(* move_snake.  The random draws make it a set of outcomes.               *)

\* the head one block further in direction d
NewHead(head, d) ==
    IF d = "UP" THEN <<head[1], head[2] - BLOCK_SIZE>>
    ELSE IF d = "DOWN" THEN <<head[1], head[2] + BLOCK_SIZE>>
    ELSE IF d = "LEFT" THEN <<head[1] - BLOCK_SIZE, head[2]>>
    ELSE <<head[1] + BLOCK_SIZE, head[2]>>

\* is_apple_eaten for the new head
IsAppleEaten(new_head, food) ==
    IF food.moving
    THEN /\ Abs(new_head[1] - food.x) < BLOCK_SIZE
         /\ Abs(new_head[2] - food.y) < BLOCK_SIZE
    ELSE new_head = <<food.x, food.y>>

\* the accepted draw of generate_power_up explored: the free cell nearest
\* to the top right corner, rightmost first
AcceptedCells(s) ==
    {c \in FreeCells(s) :
        \A o \in FreeCells(s) : c[2] < o[2] \/ (c[2] = o[2] /\ c[1] >= o[1])}

\* every way a call of generate_power_up on s can end
SpawnPowerUp(s, time) ==
    IF FreeCells(s) = {} THEN {[s EXCEPT !.stop = "HANG"]}
    ELSE {generate_power_up(s, c, t, time) :
             c \in AcceptedCells(s), t \in PowerUpTypes}

SpeedIncrement == 1
SpawnPeriod == 50

\* the mission bookkeeping of the eaten branch, m the mission drawn if the
\* apple mission completes
EatMission(s, m) ==
    IF s.current_mission.set /\ s.current_mission.description = EAT_APPLES
    THEN LET p == s.current_mission.current_progress + 1
         IN IF p >= s.current_mission.goal
            THEN [s EXCEPT !.score = @ + s.current_mission.reward,
                           !.current_mission = m]
            ELSE [s EXCEPT !.current_mission.current_progress = p]
    ELSE s

\* "Reach max speed" bookkeeping of the eaten branch
EatSpeedMission(s) ==
    IF /\ s.challenge_mode.set
       /\ s.current_mission.set
       /\ s.current_mission.description = REACH_MAX_SPEED
       /\ s.current_speed >= s.current_mission.goal
    THEN [s EXCEPT !.current_mission.current_progress = s.current_mission.goal,
                   !.score = @ + s.current_mission.reward]
    ELSE s

\* the eaten branch scoring the fallback of .get('apple_score', 1) whatever
\* the tier
EatApple_M(s, m, ap) ==
    LET a == [play_sound(s, "eat") EXCEPT !.score = @ + 1]
        b == EatMission(a, m)
        c == [b EXCEPT !.achievements.total_apples_eaten = @ + 1,
                       !.current_speed = Min(@ + SpeedIncrement, MAX_SPEED)]
        d == [c EXCEPT !.achievements.max_speed_reached = Max(@, c.current_speed)]
        e == EatSpeedMission(d)
    IN [e EXCEPT !.apple = ap]

\* the eaten branch up to and including generate_apple
EatApple(s, m, ap) ==
    LET a == [play_sound(s, "eat") EXCEPT
                !.score = @ + difficulty_config(s.difficulty).apple_score]
        b == EatMission(a, m)
        c == [b EXCEPT !.achievements.total_apples_eaten = @ + 1,
                       !.current_speed = Min(@ + SpeedIncrement, MAX_SPEED)]
        d == [c EXCEPT !.achievements.max_speed_reached = Max(@, c.current_speed)]
        e == EatSpeedMission(d)
    IN [e EXCEPT !.apple = ap]

\* the pop forgotten: the tail stays
PopTail_M(s) == s

\* snake.pop(0)
PopTail(s) == [s EXCEPT !.snake = Tail(@)]

\* the new head appended, then the eaten branch with its power-up draw, or
\* the tail popped
MoveAndEat(s, time) ==
    LET new_head == NewHead(SnakeHead(s.snake), s.direction)
        a == [s EXCEPT !.snake = Append(@, new_head), !.last_move = s.direction]
    IN IF IsAppleEaten(new_head, s.apple)
       THEN UNION {LET b == EatApple(a, m, ap)
                   IN IF b.stop = "NONE" THEN {b} \cup SpawnPowerUp(b, time)
                      ELSE {b} :
                   m \in create_mini_missions, ap \in generate_apple}
       ELSE {PopTail(a)}

\* the spawn timer
SpawnTimer(s, time) ==
    LET a == [s EXCEPT !.power_up_spawn_timer = @ + 1]
    IN IF a.power_up_spawn_timer >= SpawnPeriod
       THEN LET b == [a EXCEPT !.power_up_spawn_timer = 0]
            IN {b} \cup SpawnPowerUp(b, time)
       ELSE {a}

\* the timer without its clock test: the flag is cleared by the next call
InvincibilityTimer_M(s, time) ==
    IF s.is_invincible THEN [s EXCEPT !.is_invincible = FALSE] ELSE s

\* the invincibility timer
InvincibilityTimer(s, time) ==
    IF s.is_invincible /\ time - s.invincibility_timer > InvincibilityWindow
    THEN [s EXCEPT !.is_invincible = FALSE]
    ELSE s

\* a call that did not return runs none of what follows it
Then(S, F(_)) == UNION {IF s.stop = "NONE" THEN F(s) ELSE {s} : s \in S}

move_snake(s, time) ==
    LET Timer(x) == SpawnTimer(x, time)
        Inv(x) == {InvincibilityTimer(x, time)}
    IN Then(Then(MoveAndEat(s, time), Timer), Inv)

----------------------------------------------------------------------------
(* Power-up pickup *)

\* the growth with the tail's step taken twice
grow_snake_M(s) ==
    LET tail == s.snake[1]
        second_last == s.snake[2]
        new_tail == <<tail[1] + 2 * (tail[1] - second_last[1]),
                      tail[2] + 2 * (tail[2] - second_last[2])>>
    IN [s EXCEPT !.snake = <<new_tail>> \o @]

\* SnakeGame.grow_snake
grow_snake(s) ==
    LET tail == s.snake[1]
        second_last == s.snake[2]
        new_tail == <<tail[1] + (tail[1] - second_last[1]),
                      tail[2] + (tail[2] - second_last[2])>>
    IN [s EXCEPT !.snake = <<new_tail>> \o @]

\* SnakeGame.set_invincibility(True)
set_invincibility(s, time) ==
    [s EXCEPT !.is_invincible = TRUE, !.invincibility_timer = time]

\* the speed boost without its cap
apply_effect_M(s, pu, time) ==
    IF pu.power_type = "speed_boost"
    THEN [s EXCEPT !.current_speed = @ + SpeedBoostDelta]
    ELSE IF pu.power_type = "invincibility" THEN set_invincibility(s, time)
    ELSE IF pu.power_type = "extra_points" THEN [s EXCEPT !.score = @ + ExtraPoints]
    ELSE grow_snake(s)

\* PowerUp.apply_effect: the effect lambda of the type
apply_effect(s, pu, time) ==
    IF pu.power_type = "speed_boost"
    THEN [s EXCEPT !.current_speed = Min(@ + SpeedBoostDelta, MAX_SPEED)]
    ELSE IF pu.power_type = "invincibility" THEN set_invincibility(s, time)
    ELSE IF pu.power_type = "extra_points" THEN [s EXCEPT !.score = @ + ExtraPoints]
    ELSE grow_snake(s)

\* the sequence q without its element i
RemoveAt(q, i) == SubSeq(q, 1, i - 1) \o SubSeq(q, i + 1, Len(q))

\* indices of the power-ups under the head
UnderHead(s) ==
    {i \in 1 .. Len(s.power_ups) :
        SnakeHead(s.snake) = <<s.power_ups[i].x, s.power_ups[i].y>>}

\* SnakeGame.check_power_up_collision: the first power-up under the head is
\* applied, counted and removed
check_power_up_collision(s, time) ==
    IF UnderHead(s) = {} THEN [s EXCEPT !.ret = FALSE]
    ELSE LET i == CHOOSE j \in UnderHead(s) : \A k \in UnderHead(s) : j <= k
             a == apply_effect(play_sound(s, "power_up"), s.power_ups[i], time)
         IN [a EXCEPT !.achievements.power_ups_collected = @ + 1,
                      !.power_ups = RemoveAt(@, i),
                      !.ret = TRUE]

----------------------------------------------------------------------------
(* Achievements *)

AchievementKeys ==
    <<"long_snake", "speed_demon", "power_up_master", "survival_master">>

LongSnakeLength == 20
PowerUpMasterCount == 10

\* ACHIEVEMENTS[key]['condition'](game)
AchievementCondition(key, s) ==
    IF key = "long_snake" THEN Len(s.snake) >= LongSnakeLength
    ELSE IF key = "speed_demon" THEN s.current_speed >= gameplay_max_speed
    ELSE IF key = "power_up_master"
         THEN s.achievements.power_ups_collected >= PowerUpMasterCount
    ELSE s.lives = gameplay_initial_lives

\* ACHIEVEMENTS[key]['reward']
AchievementReward(key) ==
    IF key = "long_snake" THEN 50
    ELSE IF key = "speed_demon" THEN 30
    ELSE IF key = "power_up_master" THEN 40
    ELSE 25

\* the pass without the test of the unlocked flag
CheckAchievement_M(s, key) ==
    IF AchievementCondition(key, s)
    THEN [s EXCEPT !.achievements.unlocked = @ \cup {key},
                   !.score = @ + AchievementReward(key),
                   !.reward_grants[key] = @ + 1]
    ELSE s

\* one pass of the loop of check_achievements
CheckAchievement(s, key) ==
    IF AchievementCondition(key, s) /\ key \notin s.achievements.unlocked
    THEN [s EXCEPT !.achievements.unlocked = @ \cup {key},
                   !.score = @ + AchievementReward(key),
                   !.reward_grants[key] = @ + 1]
    ELSE s

RECURSIVE CheckAchievementsFrom(_, _)
CheckAchievementsFrom(s, i) ==
    IF i > Len(AchievementKeys) THEN s
    ELSE CheckAchievementsFrom(CheckAchievement(s, AchievementKeys[i]), i + 1)

\* AchievementManager.check_achievements
check_achievements(s) == CheckAchievementsFrom(s, 1)

\* run: check_achievements, then for every achievement it returned the
\* 'achievement' sound inside try / except Exception: pass
run_check_achievements(s) ==
    LET a == check_achievements(s)
        returned == a.achievements.unlocked \ s.achievements.unlocked
        b == play_sound(a, "achievement")
    IN IF returned = {} THEN a
       ELSE IF b.stop = "CRASH" THEN a
       ELSE b

----------------------------------------------------------------------------
(* Collisions *)

\* the game-over test with < for <= : the last life respawns
handle_collision_OffByOne(s, ap) ==
    LET a == [s EXCEPT !.lives = @ - 1,
                       !.current_speed = gameplay_initial_speed]
    IN IF a.lives < 0
       THEN [play_sound(a, "game_over") EXCEPT
               !.game_state = "GAME_OVER", !.ret = FALSE]
       ELSE [a EXCEPT !.game_state = "PLAYING",
                      !.snake = InitialSnake,
                      !.direction = "RIGHT",
                      !.last_move = "NONE",
                      !.apple = ap,
                      !.power_ups = << >>,
                      !.ret = TRUE]

\* a respawn that also clears the score
handle_collision_M(s, ap) ==
    LET a == [s EXCEPT !.lives = @ - 1,
                       !.current_speed = gameplay_initial_speed]
    IN IF a.lives <= 0
       THEN [play_sound(a, "game_over") EXCEPT
               !.game_state = "GAME_OVER", !.ret = FALSE]
       ELSE [a EXCEPT !.game_state = "PLAYING",
                      !.snake = InitialSnake,
                      !.direction = "RIGHT",
                      !.last_move = "NONE",
                      !.apple = ap,
                      !.power_ups = << >>,
                      !.score = 0,
                      !.ret = TRUE]

\* SnakeGame.handle_collision, ap the value generate_apple returns
handle_collision(s, ap) ==
    LET a == [s EXCEPT !.lives = @ - 1,
                       !.current_speed = gameplay_initial_speed]
    IN IF a.lives <= 0
       THEN [play_sound(a, "game_over") EXCEPT
               !.game_state = "GAME_OVER", !.ret = FALSE]
       ELSE [a EXCEPT !.game_state = "PLAYING",
                      !.snake = InitialSnake,
                      !.direction = "RIGHT",
                      !.last_move = "NONE",
                      !.apple = ap,
                      !.power_ups = << >>,
                      !.ret = TRUE]

\* the wall test with > for >= : the row and column just past the far
\* edges pass
HitsWall_M(head) ==
    \/ head[1] < 0 \/ head[1] > SCREEN_WIDTH
    \/ head[2] < 0 \/ head[2] > SCREEN_HEIGHT

\* the wall test of check_collision
HitsWall(head) ==
    \/ head[1] < 0 \/ head[1] >= SCREEN_WIDTH
    \/ head[2] < 0 \/ head[2] >= SCREEN_HEIGHT

\* the self test made only for snakes longer than 4
CollisionKind_M(s) ==
    LET head == SnakeHead(s.snake)
    IN IF HitsWall(head) THEN "WALL"
       ELSE IF Len(s.snake) > 4 /\ head \in SeqToSet(Body(s.snake)) THEN "SELF"
       ELSE IF s.obstacles # {} /\ head \in s.obstacles THEN "OBSTACLE"
       ELSE "NONE"

\* the branch check_collision takes
CollisionKind(s) ==
    LET head == SnakeHead(s.snake)
    IN IF HitsWall(head) THEN "WALL"
       ELSE IF head \in SeqToSet(Body(s.snake)) THEN "SELF"
       ELSE IF s.obstacles # {} /\ head \in s.obstacles THEN "OBSTACLE"
       ELSE "NONE"

\* SnakeGame.check_collision
check_collision(s, ap) ==
    LET k == CollisionKind(s)
        a == [s EXCEPT !.collision = k]
    IN IF k = "NONE" THEN [a EXCEPT !.ret = TRUE] ELSE handle_collision(a, ap)

----------------------------------------------------------------------------
(* The challenge block at the top of a Playing iteration of run, and the  *)
(* frame at its end                                                       *)

ChallengeBonus == 50

challenge_check(s, time) ==
    IF ~ s.challenge_mode.set THEN s
    ELSE IF s.challenge_start_time = NoTime
         \* current_time - None raises TypeError
         THEN [s EXCEPT !.stop = "CRASH"]
    ELSE IF time - s.challenge_start_time > 1000 * s.challenge_mode.time_limit
         THEN [s EXCEPT !.game_state = "GAME_OVER", !.ret = FALSE]
    ELSE IF s.score >= s.challenge_mode.target_score
         THEN [s EXCEPT !.score = @ + ChallengeBonus,
                        !.challenge_mode = NoChallenge,
                        !.current_mission = NoMission]
    ELSE s

\* draw_game: the only state it changes is the moving food
draw_game(s, d) ==
    IF s.apple.moving THEN [s EXCEPT !.apple = MovingFoodUpdate(@, d)] ELSE s

----------------------------------------------------------------------------
(* The set-up of run: initialize_challenge_mode and the challenge settings *)

\* the draws of GameEnhancements.create_challenge_mode explored: the ends
\* of randint(30, 120) and of randint(50, 200), the flags off
TimeLimitDraws == {30, 120}
TargetScoreDraws == {50, 200}
FlagDraws == {FALSE}

create_challenge_mode ==
    {[set |-> TRUE, time_limit |-> tl, target_score |-> ts, obstacles |-> TRUE,
      moving_walls |-> mw, special_apple_spawn |-> sa] :
        tl \in TimeLimitDraws, ts \in TargetScoreDraws,
        mw \in FlagDraws, sa \in FlagDraws}

\* the multiplier with the speed factor counted in full: up to 2
DifficultyMultiplier_M(s) ==
    LET span == gameplay_max_speed - gameplay_initial_speed
    IN IF s.current_speed > gameplay_initial_speed
       THEN <<span + (s.current_speed - gameplay_initial_speed), span>>
       ELSE <<1, 1>>

\* difficulty_multiplier of initialize_challenge_mode as the fraction
\* <<numerator, denominator>>: 1 + (speed - initial) / (max - initial) * 0.5
DifficultyMultiplier(s) ==
    LET span == gameplay_max_speed - gameplay_initial_speed
    IN IF s.current_speed > gameplay_initial_speed
       THEN <<2 * span + (s.current_speed - gameplay_initial_speed), 2 * span>>
       ELSE <<1, 1>>

\* SnakeGame.apply_challenge_mode_difficulty (int() truncates; the values
\* are positive); obstacle_count and obstacle_speed are read by nothing
apply_challenge_mode_difficulty(base, mult) ==
    LET a == [base EXCEPT !.time_limit = (@ * mult[2]) \div mult[1],
                          !.target_score = (@ * mult[1]) \div mult[2]]
    IN IF 2 * mult[1] > 3 * mult[2]
       THEN [a EXCEPT !.moving_walls = TRUE, !.special_apple_spawn = TRUE]
       ELSE a

RECURSIVE SumScores(_)
\* sum(score['score'] for score in q)
SumScores(q) == IF q = << >> THEN 0 ELSE q[1].score + SumScores(Tail(q))

\* final_probability with its clamp bounds swapped: max(0.75, min(0.1, p))
final_probability_M(hs, games, hour, achievement_count) ==
    LET recent == SubSeq(hs, Max(1, Len(hs) - 2), Len(hs))
        performance == IF Len(hs) > 0 /\ SumScores(recent) > 50 * Len(recent)
                       THEN 10 ELSE 0
        challenge_modifier == Min(15, games * 5)
        peak == IF (20 <= hour /\ hour <= 23) \/ (14 <= hour /\ hour <= 16)
                THEN 5 ELSE 0
        experience == IF achievement_count > 2 THEN 10 ELSE 0
    IN Max(75, Min(10, 20 + performance + challenge_modifier + peak + experience))

\* final_probability of initialize_challenge_mode in percent: hs the stored
\* high scores (high_scores[-3:] are the recent ones), games the sessions
\* since the last challenge, hour the hour of the tick clock
final_probability(hs, games, hour, achievement_count) ==
    LET recent == SubSeq(hs, Max(1, Len(hs) - 2), Len(hs))
        performance == IF Len(hs) > 0 /\ SumScores(recent) > 50 * Len(recent)
                       THEN 10 ELSE 0
        challenge_modifier == Min(15, games * 5)
        peak == IF (20 <= hour /\ hour <= 23) \/ (14 <= hour /\ hour <= 16)
                THEN 5 ELSE 0
        experience == IF achievement_count > 2 THEN 10 ELSE 0
    IN Min(75, Max(10, 20 + performance + challenge_modifier + peak + experience))

\* current_hour of initialize_challenge_mode
current_hour(time) == (time \div 3600000) % 24

\* the probability initialize_challenge_mode computes for session s
session_probability(s, time) ==
    final_probability(s.high_scores, s.games_since_challenge,
                      current_hour(time), Cardinality(s.achievements.unlocked))

\* the outcomes of random.random() < p for p percent, random() in [0, 1)
should_start_draws(p) == {b \in BOOLEAN : (b => p > 0) /\ (~ b => p < 100)}

\* the lines of run before its loop; should_start is the outcome of
\* random.random() < final_probability
run_setup(s, should_start, base) ==
    IF should_start
    THEN [s EXCEPT !.games_since_challenge = 0,
                   !.challenge_mode =
                       apply_challenge_mode_difficulty(base, DifficultyMultiplier(s))]
    ELSE [s EXCEPT !.games_since_challenge = @ + 1]

----------------------------------------------------------------------------
(* SnakeGame.__init__ *)

\* the attributes as __init__ has set them when it calls reset_game
Constructed(d) ==
    [game_state |-> "START", snake |-> << >>, direction |-> "RIGHT",
     apple |-> StaticFood(0, 0), power_ups |-> << >>,
     power_up_spawn_timer |-> 0, is_invincible |-> FALSE,
     invincibility_timer |-> 0, score |-> 0, high_score |-> 0,
     lives |-> difficulty_config(d).lives,
     current_speed |-> difficulty_config(d).initial_speed,
     achievements |-> [longest_snake |-> 0,
                       max_speed_reached |-> difficulty_config(d).initial_speed,
                       total_apples_eaten |-> 0,
                       power_ups_collected |-> 0,
                       unlocked |-> {}],
     challenge_mode |-> NoChallenge, challenge_start_time |-> NoTime,
     current_mission |-> NoMission, obstacles |-> {},
     games_since_challenge |-> 0, game_over_buttons |-> FALSE,
     high_scores |-> << >>, collision |-> "NONE", last_move |-> "NONE",
     difficulty |-> d,
     reward_grants |-> [k \in SeqToSet(AchievementKeys) |-> 0],
     submitted |-> << >>, sounds |-> SoundFiles,
     stop |-> "NONE", ret |-> TRUE]

----------------------------------------------------------------------------
(* The state machine *)

\* the state after SnakeGame(difficulty): __init__ ends with reset_game
Init ==
    \E d \in Difficulties, ap \in generate_apple :
        LET t == reset_game(Constructed(d), ap)
        IN /\ pc = "setup"
           /\ now = 0
           /\ difficulty = t.difficulty
           /\ game_state = t.game_state
           /\ snake = t.snake
           /\ direction = t.direction
           /\ apple = t.apple
           /\ power_ups = t.power_ups
           /\ power_up_spawn_timer = t.power_up_spawn_timer
           /\ is_invincible = t.is_invincible
           /\ invincibility_timer = t.invincibility_timer
           /\ score = t.score
           /\ high_score = t.high_score
           /\ lives = t.lives
           /\ current_speed = t.current_speed
           /\ achievements = t.achievements
           /\ challenge_mode = t.challenge_mode
           /\ challenge_start_time = t.challenge_start_time
           /\ current_mission = t.current_mission
           /\ obstacles = t.obstacles
           /\ games_since_challenge = t.games_since_challenge
           /\ game_over_buttons = t.game_over_buttons
           /\ high_scores = t.high_scores
           /\ collision = t.collision
           /\ last_move = t.last_move
           /\ reward_grants = t.reward_grants
           /\ submitted = t.submitted
           /\ sounds = t.sounds

\* where run is after a call that ended as t.stop says, next otherwise
After(t, next) ==
    IF t.stop = "EXIT" THEN "exited"
    ELSE IF t.stop = "HANG" THEN "hung"
    ELSE IF t.stop = "CRASH" THEN "crashed"
    ELSE next

\* at most two arrow keys are held at once
KeySets == {k \in SUBSET Directions : Cardinality(k) <= 2}

\* run, before the loop
RunSetup ==
    /\ pc = "setup"
    /\ \E should_start \in should_start_draws(session_probability(Self, now)),
          base \in create_challenge_mode :
          Assign(run_setup(Self, should_start, base))
    /\ pc' = "events"
    /\ UNCHANGED now

\* run: self.handle_events()
HandleEvents ==
    /\ pc = "events"
    /\ now < MaxFrames * FrameMs
    /\ \E keys \in KeySets :
          \E ap \in IF game_state \in {"START", "GAME_OVER"}
                    THEN generate_apple ELSE {apple} :
             \E t \in handle_events(Self, keys, ap, now) :
                /\ Len(t.submitted) <= MaxRestarts
                /\ Assign(t)
                /\ pc' = After(t, "frame")
    /\ UNCHANGED now

\* run: the START, GAME_OVER and PAUSED branches draw a screen, wait for
\* the frame and continue
IdleFrame ==
    /\ pc = "frame"
    /\ game_state # "PLAYING"
    /\ Assign([Self EXCEPT !.game_over_buttons = @ \/ game_state = "GAME_OVER"])
    /\ now' = now + FrameMs
    /\ pc' = "events"

\* run: the challenge block of a Playing iteration
ChallengeCheck ==
    /\ pc = "frame"
    /\ game_state = "PLAYING"
    /\ LET t == challenge_check(Self, now)
       IN Assign(t) /\ pc' = After(t, IF t.ret THEN "move" ELSE "events")
    /\ UNCHANGED now

\* run: self.move_snake()
MoveSnake ==
    /\ pc = "move"
    /\ \E t \in move_snake(Self, now) :
          /\ t.achievements.total_apples_eaten <= MaxApples
          /\ Assign(t)
          /\ pc' = After(t, "power_up")
    /\ UNCHANGED now

\* run: self.check_power_up_collision()
CheckPowerUpCollision ==
    /\ pc = "power_up"
    /\ LET t == check_power_up_collision(Self, now)
       IN Assign(t) /\ pc' = After(t, "achievements")
    /\ UNCHANGED now

\* the achievement evaluation with the collision check after it left out
CheckAchievements_M ==
    /\ pc = "achievements"
    /\ Assign(run_check_achievements(Self))
    /\ pc' = "draw"
    /\ UNCHANGED now

\* run: AchievementManager.check_achievements(self)
CheckAchievements ==
    /\ pc = "achievements"
    /\ Assign(run_check_achievements(Self))
    /\ pc' = "collision"
    /\ UNCHANGED now

\* run: if not self.check_collision(): continue
CheckCollision ==
    /\ pc = "collision"
    /\ \E ap \in IF CollisionKind(Self) = "NONE" THEN {apple} ELSE generate_apple :
          LET t == check_collision(Self, ap)
          IN Assign(t) /\ pc' = After(t, IF t.ret THEN "draw" ELSE "events")
    /\ UNCHANGED now

\* run: self.draw_game() and self.clock.tick(self.current_speed)
DrawGame ==
    /\ pc = "draw"
    /\ \E d \in IF apple.moving THEN FoodDirections ELSE {"NONE"} :
          Assign(draw_game(Self, d))
    /\ now' = now + FrameMs
    /\ pc' = "events"

Next ==
    \/ RunSetup
    \/ HandleEvents
    \/ IdleFrame
    \/ ChallengeCheck
    \/ MoveSnake
    \/ CheckPowerUpCollision
    \/ CheckAchievements
    \/ CheckCollision
    \/ DrawGame

Spec == Init /\ [][Next]_vars

----------------------------------------------------------------------------
(* A session on which start_challenge_mode was called.  run never calls   *)
(* it; this second specification calls it on the constructed session and  *)
(* then iterates the loop of run, so that the code of missions and        *)
(* obstacles is exercised.                                                *)

\* cells add_dynamic_obstacles accepts: not on the snake, not equal to the
\* apple (a static apple is the tuple of its cell, a MovingFood object is
\* equal to no tuple)
ObstacleFree(s) ==
    {c \in Cells :
        /\ c \notin SeqToSet(s.snake)
        /\ (s.apple.moving \/ c # <<s.apple.x, s.apple.y>>)}

\* GameEnhancements.add_dynamic_obstacles: the lists it can return when
\* randint(1, 5) gives n; with fewer than n acceptable cells its inner loop
\* never ends and the result is the empty set of outcomes
add_dynamic_obstacles(s, n) ==
    {O \in SUBSET ObstacleFree(s) : Cardinality(O) = n}

\* the obstacle draws explored: one obstacle, in the top left corner
ObstacleCounts == {1}
ObstacleCells == {<<0, 0>>}

\* SnakeGame.start_challenge_mode with its draws: the settings, the
\* obstacles, the mission
start_challenge_mode(s, settings, obs, m, time) ==
    LET a == [s EXCEPT !.challenge_mode = settings]
        b == IF a.challenge_mode.obstacles THEN [a EXCEPT !.obstacles = obs] ELSE a
    IN [b EXCEPT !.current_mission = m, !.challenge_start_time = time]

\* speed boosts picked up before the challenge starts
BoostDraws == {0, 4}

\* session s after n pickups of a speed boost
Boosted(s, n) ==
    [s EXCEPT !.current_speed = Min(@ + n * SpeedBoostDelta, MAX_SPEED),
              !.achievements.power_ups_collected = @ + n]

\* the constructed session of the tier main() passes, in play with some
\* speed boosts picked up
ChallengeInit ==
    \E ap \in generate_apple, n \in BoostDraws :
        LET t == Boosted(reset_game(Constructed("MEDIUM"), ap), n)
        IN /\ pc = "setup"
           /\ now = 0
           /\ difficulty = t.difficulty
           /\ game_state = t.game_state
           /\ snake = t.snake
           /\ direction = t.direction
           /\ apple = t.apple
           /\ power_ups = t.power_ups
           /\ power_up_spawn_timer = t.power_up_spawn_timer
           /\ is_invincible = t.is_invincible
           /\ invincibility_timer = t.invincibility_timer
           /\ score = t.score
           /\ high_score = t.high_score
           /\ lives = t.lives
           /\ current_speed = t.current_speed
           /\ achievements = t.achievements
           /\ challenge_mode = t.challenge_mode
           /\ challenge_start_time = t.challenge_start_time
           /\ current_mission = t.current_mission
           /\ obstacles = t.obstacles
           /\ games_since_challenge = t.games_since_challenge
           /\ game_over_buttons = t.game_over_buttons
           /\ high_scores = t.high_scores
           /\ collision = t.collision
           /\ last_move = t.last_move
           /\ reward_grants = t.reward_grants
           /\ submitted = t.submitted
           /\ sounds = t.sounds

\* self.start_challenge_mode()
StartChallengeMode ==
    /\ pc = "setup"
    /\ \E settings \in create_challenge_mode, n \in ObstacleCounts,
          m \in create_mini_missions :
          \E obs \in {O \in add_dynamic_obstacles(Self, n) : O \subseteq ObstacleCells} :
             Assign(start_challenge_mode(Self, settings, obs, m, now))
    /\ pc' = "events"
    /\ UNCHANGED now

ChallengeNext ==
    \/ StartChallengeMode
    \/ HandleEvents
    \/ IdleFrame
    \/ ChallengeCheck
    \/ MoveSnake
    \/ CheckPowerUpCollision
    \/ CheckAchievements
    \/ CheckCollision
    \/ DrawGame

ChallengeSpec == ChallengeInit /\ [][ChallengeNext]_vars

----------------------------------------------------------------------------
(* generate_power_up called on the boards of a bounded set: a third       *)
(* specification, in which every cell the source can accept is drawn.     *)

\* longest snake and longest power-up list of the boards
MaxSnakeLen == 6
MaxBoardPowerUps == 2

\* two cells one block apart
Adjacent(a, b) == Abs(a[1] - b[1]) + Abs(a[2] - b[2]) = BLOCK_SIZE

RECURSIVE SnakesOfLength(_)
\* the snakes of n segments on the grid: each segment next to the one before
\* it, no cell twice
SnakesOfLength(n) ==
    IF n = 1 THEN {<<c>> : c \in Cells}
    ELSE UNION {{Append(q, c) : c \in {d \in Cells : /\ Adjacent(q[Len(q)], d)
                                                     /\ d \notin SeqToSet(q)}} :
                   q \in SnakesOfLength(n - 1)}

\* the snakes of the boards
BoardSnakes == UNION {SnakesOfLength(n) : n \in 3 .. MaxSnakeLen}

\* the type of the power-ups already on a board (generate_power_up reads
\* their positions only)
BoardTypes == {"extra_points"}

\* the power-up lists of the boards for snake q: off the snake, no cell twice
BoardPowerUps(q) ==
    {l \in UNION {[1 .. n -> {PowerUp(c[1], c[2], t, 0) :
                                 c \in Cells \ SeqToSet(q), t \in BoardTypes}] :
                     n \in 0 .. MaxBoardPowerUps} :
        \A i, j \in 1 .. Len(l) : i # j => <<l[i].x, l[i].y>> # <<l[j].x, l[j].y>>}

\* every way a call of generate_power_up on s can end: with an accepted
\* draw, or never when no draw can be accepted (the while True loop has no
\* other exit)
generate_power_up_call(s, time) ==
    IF FreeCells(s) = {} THEN {[s EXCEPT !.stop = "HANG"]}
    ELSE {generate_power_up(s, c, t, time) : c \in FreeCells(s), t \in PowerUpTypes}

\* a session in play with the snake and the power-ups of a board
BoardInit ==
    \E q \in BoardSnakes :
      \E l \in BoardPowerUps(q) :
        LET r == reset_game(Constructed("MEDIUM"), StaticFood(0, 0))
            t == [r EXCEPT !.snake = q, !.power_ups = l]
        IN /\ pc = "generate"
           /\ now = 0
           /\ difficulty = t.difficulty
           /\ game_state = t.game_state
           /\ snake = t.snake
           /\ direction = t.direction
           /\ apple = t.apple
           /\ power_ups = t.power_ups
           /\ power_up_spawn_timer = t.power_up_spawn_timer
           /\ is_invincible = t.is_invincible
           /\ invincibility_timer = t.invincibility_timer
           /\ score = t.score
           /\ high_score = t.high_score
           /\ lives = t.lives
           /\ current_speed = t.current_speed
           /\ achievements = t.achievements
           /\ challenge_mode = t.challenge_mode
           /\ challenge_start_time = t.challenge_start_time
           /\ current_mission = t.current_mission
           /\ obstacles = t.obstacles
           /\ games_since_challenge = t.games_since_challenge
           /\ game_over_buttons = t.game_over_buttons
           /\ high_scores = t.high_scores
           /\ collision = t.collision
           /\ last_move = t.last_move
           /\ reward_grants = t.reward_grants
           /\ submitted = t.submitted
           /\ sounds = t.sounds

\* self.generate_power_up()
GeneratePowerUp ==
    /\ pc = "generate"
    /\ \E t \in generate_power_up_call(Self, now) :
          Assign(t) /\ pc' = After(t, "generated")
    /\ UNCHANGED now

BoardSpec == BoardInit /\ [][GeneratePowerUp]_vars

----------------------------------------------------------------------------
(* run with the sound files present or missing: a fifth specification.    *)
(* Init takes the case in which all three files load.                     *)

\* the outcomes of load_sounds explored: every file loads, no file loads
SoundDraws == {SoundFiles, {}}

SoundInit ==
    \E ap \in generate_apple, loaded \in SoundDraws :
        LET t == [reset_game(Constructed("MEDIUM"), ap) EXCEPT !.sounds = loaded]
        IN /\ pc = "setup"
           /\ now = 0
           /\ difficulty = t.difficulty
           /\ game_state = t.game_state
           /\ snake = t.snake
           /\ direction = t.direction
           /\ apple = t.apple
           /\ power_ups = t.power_ups
           /\ power_up_spawn_timer = t.power_up_spawn_timer
           /\ is_invincible = t.is_invincible
           /\ invincibility_timer = t.invincibility_timer
           /\ score = t.score
           /\ high_score = t.high_score
           /\ lives = t.lives
           /\ current_speed = t.current_speed
           /\ achievements = t.achievements
           /\ challenge_mode = t.challenge_mode
           /\ challenge_start_time = t.challenge_start_time
           /\ current_mission = t.current_mission
           /\ obstacles = t.obstacles
           /\ games_since_challenge = t.games_since_challenge
           /\ game_over_buttons = t.game_over_buttons
           /\ high_scores = t.high_scores
           /\ collision = t.collision
           /\ last_move = t.last_move
           /\ reward_grants = t.reward_grants
           /\ submitted = t.submitted
           /\ sounds = t.sounds

SoundSpec == SoundInit /\ [][Next]_vars

----------------------------------------------------------------------------
(* HighScoreManager.save_score called over and over on one stored list: a *)
(* fourth specification, for lists longer than a bounded run of the game  *)
(* can fill.                                                              *)

\* calls made
MaxSaves == 11
\* the scores the calls are made with
ScoreDraws == {25, 27}

\* no highscores.json yet, the clock at 0
ScoreInit ==
    LET t == reset_game(Constructed("MEDIUM"), StaticFood(0, 0))
    IN /\ pc = "save"
       /\ now = 0
       /\ difficulty = t.difficulty
       /\ game_state = t.game_state
       /\ snake = t.snake
       /\ direction = t.direction
       /\ apple = t.apple
       /\ power_ups = t.power_ups
       /\ power_up_spawn_timer = t.power_up_spawn_timer
       /\ is_invincible = t.is_invincible
       /\ invincibility_timer = t.invincibility_timer
       /\ score = t.score
       /\ high_score = t.high_score
       /\ lives = t.lives
       /\ current_speed = t.current_speed
       /\ achievements = t.achievements
       /\ challenge_mode = t.challenge_mode
       /\ challenge_start_time = t.challenge_start_time
       /\ current_mission = t.current_mission
       /\ obstacles = t.obstacles
       /\ games_since_challenge = t.games_since_challenge
       /\ game_over_buttons = t.game_over_buttons
       /\ high_scores = t.high_scores
       /\ collision = t.collision
       /\ last_move = t.last_move
       /\ reward_grants = t.reward_grants
       /\ submitted = t.submitted
       /\ sounds = t.sounds

\* HighScoreManager.save_score(sc), the clock one millisecond further at
\* each call
SaveScore ==
    /\ pc = "save"
    /\ Len(submitted) < MaxSaves
    /\ \E sc \in ScoreDraws : Assign(SaveScoreCall(Self, sc, now))
    /\ now' = now + 1
    /\ pc' = "save"

ScoreSpec == ScoreInit /\ [][SaveScore]_vars

----------------------------------------------------------------------------
(* The rest of a Playing tick after move_snake has put the head on a      *)
(* length_increase power-up, for the snakes of a bounded set.             *)

\* a session in play whose head has just moved onto a length_increase
\* power-up
GrowInit ==
    \E q \in BoardSnakes :
        LET r == reset_game(Constructed("MEDIUM"), StaticFood(0, 0))
            h == SnakeHead(q)
            t == [r EXCEPT !.snake = q,
                           !.power_ups = <<PowerUp(h[1], h[2], "length_increase", 0)>>]
        IN /\ pc = "power_up"
           /\ now = 0
           /\ difficulty = t.difficulty
           /\ game_state = t.game_state
           /\ snake = t.snake
           /\ direction = t.direction
           /\ apple = t.apple
           /\ power_ups = t.power_ups
           /\ power_up_spawn_timer = t.power_up_spawn_timer
           /\ is_invincible = t.is_invincible
           /\ invincibility_timer = t.invincibility_timer
           /\ score = t.score
           /\ high_score = t.high_score
           /\ lives = t.lives
           /\ current_speed = t.current_speed
           /\ achievements = t.achievements
           /\ challenge_mode = t.challenge_mode
           /\ challenge_start_time = t.challenge_start_time
           /\ current_mission = t.current_mission
           /\ obstacles = t.obstacles
           /\ games_since_challenge = t.games_since_challenge
           /\ game_over_buttons = t.game_over_buttons
           /\ high_scores = t.high_scores
           /\ collision = t.collision
           /\ last_move = t.last_move
           /\ reward_grants = t.reward_grants
           /\ submitted = t.submitted
           /\ sounds = t.sounds

\* the steps of run that follow move_snake in the tick
GrowNext ==
    \/ CheckPowerUpCollision
    \/ CheckAchievements
    \/ CheckCollision

GrowSpec == GrowInit /\ [][GrowNext]_vars

----------------------------------------------------------------------------
(* add_dynamic_obstacles called on the boards of a bounded set, with      *)
(* every list it can return.                                              *)

\* random.randint(1, 5)
MaxObstacles == 5

\* the food of the boards: static or moving, on any cell
BoardApples ==
    {StaticFood(c[1], c[2]) : c \in Cells}
    \cup {MovingFood(c[1], c[2], d) : c \in Cells, d \in FoodDirections}

\* a session in play with the snake and the food of a board
ObstacleInit ==
    \E q \in BoardSnakes, ap \in BoardApples :
        LET r == reset_game(Constructed("MEDIUM"), ap)
            t == [r EXCEPT !.snake = q]
        IN /\ pc = "obstacles"
           /\ now = 0
           /\ difficulty = t.difficulty
           /\ game_state = t.game_state
           /\ snake = t.snake
           /\ direction = t.direction
           /\ apple = t.apple
           /\ power_ups = t.power_ups
           /\ power_up_spawn_timer = t.power_up_spawn_timer
           /\ is_invincible = t.is_invincible
           /\ invincibility_timer = t.invincibility_timer
           /\ score = t.score
           /\ high_score = t.high_score
           /\ lives = t.lives
           /\ current_speed = t.current_speed
           /\ achievements = t.achievements
           /\ challenge_mode = t.challenge_mode
           /\ challenge_start_time = t.challenge_start_time
           /\ current_mission = t.current_mission
           /\ obstacles = t.obstacles
           /\ games_since_challenge = t.games_since_challenge
           /\ game_over_buttons = t.game_over_buttons
           /\ high_scores = t.high_scores
           /\ collision = t.collision
           /\ last_move = t.last_move
           /\ reward_grants = t.reward_grants
           /\ submitted = t.submitted
           /\ sounds = t.sounds

\* self.obstacles = GameEnhancements.add_dynamic_obstacles(self): with
\* fewer acceptable cells than obstacles to place the inner while True
\* never ends
AddDynamicObstacles ==
    /\ pc = "obstacles"
    /\ \E n \in 1 .. MaxObstacles :
          IF add_dynamic_obstacles(Self, n) = {}
          THEN Assign(Self) /\ pc' = "hung"
          ELSE \E O \in add_dynamic_obstacles(Self, n) :
                  Assign([Self EXCEPT !.obstacles = O]) /\ pc' = "placed"
    /\ UNCHANGED now

ObstacleSpec == ObstacleInit /\ [][AddDynamicObstacles]_vars

----------------------------------------------------------------------------
(* The loop of run on sessions whose challenge is about to run out of     *)
(* time: start_challenge_mode was called time_limit seconds before the    *)
(* first frame explored, from which the clock of the model counts.        *)

\* a session in play whose challenge started time_limit seconds ago
TimeoutInit ==
    \E ap \in generate_apple, settings \in create_challenge_mode,
       m \in create_mini_missions :
        LET r == reset_game(Constructed("MEDIUM"), ap)
            t == start_challenge_mode(r, settings, ObstacleCells, m,
                                      0 - 1000 * settings.time_limit)
        IN /\ pc = "events"
           /\ now = 0
           /\ difficulty = t.difficulty
           /\ game_state = t.game_state
           /\ snake = t.snake
           /\ direction = t.direction
           /\ apple = t.apple
           /\ power_ups = t.power_ups
           /\ power_up_spawn_timer = t.power_up_spawn_timer
           /\ is_invincible = t.is_invincible
           /\ invincibility_timer = t.invincibility_timer
           /\ score = t.score
           /\ high_score = t.high_score
           /\ lives = t.lives
           /\ current_speed = t.current_speed
           /\ achievements = t.achievements
           /\ challenge_mode = t.challenge_mode
           /\ challenge_start_time = t.challenge_start_time
           /\ current_mission = t.current_mission
           /\ obstacles = t.obstacles
           /\ games_since_challenge = t.games_since_challenge
           /\ game_over_buttons = t.game_over_buttons
           /\ high_scores = t.high_scores
           /\ collision = t.collision
           /\ last_move = t.last_move
           /\ reward_grants = t.reward_grants
           /\ submitted = t.submitted
           /\ sounds = t.sounds

\* the loop of run
TimeoutNext ==
    \/ HandleEvents
    \/ IdleFrame
    \/ ChallengeCheck
    \/ MoveSnake
    \/ CheckPowerUpCollision
    \/ CheckAchievements
    \/ CheckCollision
    \/ DrawGame

TimeoutSpec == TimeoutInit /\ [][TimeoutNext]_vars

----------------------------------------------------------------------------
(* The lines of run before its loop on sessions of every speed            *)
(* current_speed can have.                                                *)

\* the values of current_speed: from the gameplay initial speed, to which
\* every reset returns it, up to the cap, in steps of 0.5
SpeedDraws == gameplay_initial_speed .. MAX_SPEED

\* a session in play at one of the speeds
MultiplierInit ==
    \E ap \in generate_apple, n \in SpeedDraws :
        LET t == [reset_game(Constructed("MEDIUM"), ap) EXCEPT !.current_speed = n]
        IN /\ pc = "setup"
           /\ now = 0
           /\ difficulty = t.difficulty
           /\ game_state = t.game_state
           /\ snake = t.snake
           /\ direction = t.direction
           /\ apple = t.apple
           /\ power_ups = t.power_ups
           /\ power_up_spawn_timer = t.power_up_spawn_timer
           /\ is_invincible = t.is_invincible
           /\ invincibility_timer = t.invincibility_timer
           /\ score = t.score
           /\ high_score = t.high_score
           /\ lives = t.lives
           /\ current_speed = t.current_speed
           /\ achievements = t.achievements
           /\ challenge_mode = t.challenge_mode
           /\ challenge_start_time = t.challenge_start_time
           /\ current_mission = t.current_mission
           /\ obstacles = t.obstacles
           /\ games_since_challenge = t.games_since_challenge
           /\ game_over_buttons = t.game_over_buttons
           /\ high_scores = t.high_scores
           /\ collision = t.collision
           /\ last_move = t.last_move
           /\ reward_grants = t.reward_grants
           /\ submitted = t.submitted
           /\ sounds = t.sounds

MultiplierSpec == MultiplierInit /\ [][RunSetup]_vars

----------------------------------------------------------------------------
(* One Playing tick, from move_snake on, of sessions of every speed       *)
(* current_speed can have, with food or a speed boost ahead of the head.  *)

\* the power-up lists of the sessions: none, or a speed boost on the cell
\* ahead of the head
SpeedPowerUps ==
    {<< >>, <<PowerUp(CenterX + BLOCK_SIZE, CenterY, "speed_boost", 0)>>}

\* a session in play at one of the speeds, about to move
SpeedInit ==
    \E ap \in generate_apple, n \in SpeedDraws, l \in SpeedPowerUps :
        LET t == [reset_game(Constructed("MEDIUM"), ap) EXCEPT
                    !.current_speed = n, !.power_ups = l]
        IN /\ pc = "move"
           /\ now = 0
           /\ difficulty = t.difficulty
           /\ game_state = t.game_state
           /\ snake = t.snake
           /\ direction = t.direction
           /\ apple = t.apple
           /\ power_ups = t.power_ups
           /\ power_up_spawn_timer = t.power_up_spawn_timer
           /\ is_invincible = t.is_invincible
           /\ invincibility_timer = t.invincibility_timer
           /\ score = t.score
           /\ high_score = t.high_score
           /\ lives = t.lives
           /\ current_speed = t.current_speed
           /\ achievements = t.achievements
           /\ challenge_mode = t.challenge_mode
           /\ challenge_start_time = t.challenge_start_time
           /\ current_mission = t.current_mission
           /\ obstacles = t.obstacles
           /\ games_since_challenge = t.games_since_challenge
           /\ game_over_buttons = t.game_over_buttons
           /\ high_scores = t.high_scores
           /\ collision = t.collision
           /\ last_move = t.last_move
           /\ reward_grants = t.reward_grants
           /\ submitted = t.submitted
           /\ sounds = t.sounds

\* the steps of a Playing iteration of run from move_snake on
SpeedNext ==
    \/ MoveSnake
    \/ CheckPowerUpCollision
    \/ CheckAchievements
    \/ CheckCollision
    \/ DrawGame

SpeedSpec == SpeedInit /\ [][SpeedNext]_vars

----------------------------------------------------------------------------
(* Properties *)

Opposite(d) ==
    IF d = "UP" THEN "DOWN"
    ELSE IF d = "DOWN" THEN "UP"
    ELSE IF d = "LEFT" THEN "RIGHT"
    ELSE IF d = "RIGHT" THEN "LEFT"
    ELSE "NONE"

RECURSIVE SumRewards(_)
SumRewards(K) ==
    IF K = {} THEN 0
    ELSE LET k == CHOOSE x \in K : TRUE
         IN AchievementReward(k) + SumRewards(K \ {k})

\* the head move_snake is about to append, and whether it eats the food
NextHead == NewHead(SnakeHead(snake), direction)
WillEat == IsAppleEaten(NextHead, apple)

\* C1: one move_snake call appends the new head; it keeps the length (the
\* oldest segment is removed) when the food is not eaten and adds exactly one
\* segment (nothing removed) when it is.
C1_MoveLength ==
    [][pc = "move" =>
         IF WillEat
         THEN snake' = Append(snake, NextHead) /\ Len(snake') = Len(snake) + 1
         ELSE /\ snake' = Append(SubSeq(snake, 2, Len(snake)), NextHead)
              /\ Len(snake') = Len(snake)]_vars

\* a move that ate: the snake is one longer than the respawned one
C1_Witness ==
    /\ pc = "power_up"
    /\ achievements.total_apples_eaten = 1
    /\ Len(snake) = Len(InitialSnake) + 1
    /\ lives = gameplay_initial_lives

\* C2: within a life, the direction move_snake uses is never the opposite of
\* the direction the previous move_snake used.
C2_NoReversal ==
    (pc = "move" /\ last_move # "NONE") => direction # Opposite(last_move)

\* C3: a collision detected while the invincibility flag is set costs no
\* life and does not end the game.
C3_InvincibleKeepsLife ==
    [][(pc = "collision" /\ is_invincible) =>
          (lives' = lives /\ game_state' # "GAME_OVER")]_vars

\* C4: when the pickup check of a Playing tick runs, no power-up whose
\* duration has elapsed is left in the list.
C4_ExpiredRemoved ==
    pc = "power_up" =>
        \A i \in 1 .. Len(power_ups) : ~ is_expired(power_ups[i], now)

\* C5: an unlocked flag is never cleared, no achievement's reward is added
\* more than once in a session, and check_achievements adds exactly the
\* rewards of the achievements it newly unlocks (nothing for one that is
\* already unlocked).
C5_AchievementOnce ==
    [][/\ achievements.unlocked \subseteq achievements'.unlocked
       /\ \A k \in DOMAIN reward_grants : reward_grants'[k] <= 1
       /\ pc = "achievements" =>
            score' = score + SumRewards(achievements'.unlocked
                                          \ achievements.unlocked)
       /\ pc # "achievements" => achievements'.unlocked = achievements.unlocked
      ]_vars

\* check_achievements has run again after a restart, with the condition of
\* an unlocked achievement true once more
C5_Witness ==
    /\ pc = "collision"
    /\ Len(high_scores) >= 1
    /\ lives = gameplay_initial_lives
    /\ "survival_master" \in achievements.unlocked
    /\ reward_grants["survival_master"] = 1
    /\ score < AchievementReward("survival_master")

\* a step that runs reset_game: the restart from GAME_OVER
IsRestart == pc = "events" /\ game_state = "GAME_OVER" /\ game_state' # "GAME_OVER"

\* C6: between two calls of reset_game the score never decreases.
C6_ScoreMonotone == [][IsRestart \/ score' >= score]_vars

\* a life was lost with points on the board
C6_Witness ==
    /\ pc = "draw"
    /\ collision # "NONE"
    /\ lives < gameplay_initial_lives
    /\ score > AchievementReward("survival_master")

\* C7: a snake of at least 4 segments whose head is on one of its other
\* segments is reported as a self collision, which costs a life.
C7_SelfCollision ==
    [][(/\ pc = "collision"
        /\ Len(snake) >= 4
        /\ \E i \in 1 .. Len(snake) - 1 : snake[i] = snake[Len(snake)]) =>
          (collision' = "SELF" /\ lives' = lives - 1)]_vars

\* the game ended on a self collision of a snake of 4 segments or more
C7_Witness ==
    /\ game_state = "GAME_OVER"
    /\ collision = "SELF"
    /\ Len(snake) >= 4
    /\ lives = 0

\* the head check_collision looks at, and whether it is on the board
CollisionHead == snake[Len(snake)]
HeadInBounds ==
    /\ 0 <= CollisionHead[1] /\ CollisionHead[1] <= SCREEN_WIDTH - 1
    /\ 0 <= CollisionHead[2] /\ CollisionHead[2] <= SCREEN_HEIGHT - 1

\* C8: check_collision reports a wall collision exactly when the head is
\* outside [0, width) x [0, height); with no obstacles it reports no obstacle
\* collision; a head in bounds, on no other segment and on no obstacle is no
\* collision: the call returns True (run goes on to draw), lives and snake
\* are unchanged.
C8_WallExactly ==
    [][pc = "collision" =>
         /\ (collision' = "WALL") <=> ~ HeadInBounds
         /\ obstacles = {} => collision' # "OBSTACLE"
         /\ (/\ HeadInBounds
             /\ \A i \in 1 .. Len(snake) - 1 : snake[i] # CollisionHead
             /\ CollisionHead \notin obstacles) =>
               (/\ collision' = "NONE"
                /\ pc' = "draw"
                /\ lives' = lives
                /\ snake' = snake)]_vars

\* a wall collision on the column just past the right edge was reported
C8_Witness ==
    /\ pc = "draw"
    /\ collision = "WALL"
    /\ lives = gameplay_initial_lives - 1
    /\ last_move = "NONE"
    /\ now > 0

\* C9: a head at x = width with one life left is a wall collision that puts
\* the session in GAME_OVER and, in that same step, adds the score of the
\* ended round to the high-score store.
C9_GameOverPersists ==
    [][(pc = "collision" /\ CollisionHead[1] = SCREEN_WIDTH /\ lives = 1) =>
          (/\ collision' = "WALL"
           /\ game_state' = "GAME_OVER"
           /\ Len(high_scores') = Len(high_scores) + 1
           /\ \E i \in 1 .. Len(high_scores') : high_scores'[i].score = score)]_vars

\* C10: the respawned snake (3 segments, head in the centre, going RIGHT)
\* with static food one block right of the head: one move_snake makes the
\* length 4, draws a new apple and adds the tier's apple_score (2 for MEDIUM,
\* 3 for HARD) to the score.
C10_CentredEat ==
    [][(/\ pc = "move"
        /\ snake = <<<<CenterX - 2 * BLOCK_SIZE, CenterY>>,
                     <<CenterX - BLOCK_SIZE, CenterY>>,
                     <<CenterX, CenterY>>>>
        /\ direction = "RIGHT"
        /\ apple = StaticFood(CenterX + BLOCK_SIZE, CenterY)) =>
          (/\ Len(snake') = 4
           /\ snake'[4] = <<CenterX + BLOCK_SIZE, CenterY>>
           /\ apple' \in generate_apple
           /\ score' = score + DIFFICULTY_LEVELS[difficulty].apple_score
           /\ difficulty = "MEDIUM" => score' = score + 2
           /\ difficulty = "HARD" => score' = score + 3)]_vars

\* the first move of a MEDIUM session ate the static food right of the head
C10_Witness ==
    /\ pc = "power_up"
    /\ now = 0
    /\ difficulty = "MEDIUM"
    /\ Len(snake) = 4
    /\ snake[4] = <<CenterX + BLOCK_SIZE, CenterY>>
    /\ score = 2
    /\ achievements.total_apples_eaten = 1

\* C11: a session just constructed is in state START.
C11_BeginsInStart == pc = "setup" => game_state = "START"

\* C12: while PAUSED, no event other than quitting changes the snake, the
\* direction, the food, the score, the lives, the speed, the power-up list or
\* the achievements, whatever keys are held; only the resume key changes the
\* state, to PLAYING; the PAUSED frame of run changes none of them either,
\* and no handle_events call that starts PAUSED changes anything but the
\* state and the direction.
C12_PausedFrozen ==
    [][game_state = "PAUSED" =>
         /\ \A ev \in EventKinds \ {"QUIT"}, keys \in KeySets :
               LET t == HandleEvent(Self, ev, keys, apple, now)
               IN /\ t.snake = snake
                  /\ t.direction = direction
                  /\ t.apple = apple
                  /\ t.score = score
                  /\ t.lives = lives
                  /\ t.current_speed = current_speed
                  /\ t.power_ups = power_ups
                  /\ t.achievements = achievements
                  /\ t.game_state = IF ev = "KEY_P" THEN "PLAYING" ELSE "PAUSED"
         /\ pc = "frame" =>
               /\ UNCHANGED <<snake, direction, apple, score, lives,
                              current_speed, power_ups, achievements, game_state>>
               /\ pc' = "events"
         /\ pc = "events" =>
               UNCHANGED <<snake, apple, score, lives, current_speed,
                           power_ups, achievements>>]_vars

\* a session that sat out a frame paused, with points on the board
C12_Witness ==
    /\ pc = "events"
    /\ game_state = "PAUSED"
    /\ now > 0
    /\ score > 0

\* C13: a handled collision takes exactly one life; with none left the
\* state is GAME_OVER, the call returns False and nothing is respawned;
\* otherwise it returns True with the 3 centred segments, direction RIGHT, a
\* generated food, no power-ups and the state PLAYING.
C13_HandleCollision ==
    [][(pc = "collision" /\ collision' # "NONE") =>
         /\ lives' = lives - 1
         /\ IF lives - 1 <= 0
            THEN /\ game_state' = "GAME_OVER"
                 /\ pc' = "events"
                 /\ UNCHANGED <<snake, direction, apple, power_ups>>
            ELSE /\ game_state' = "PLAYING"
                 /\ pc' = "draw"
                 /\ snake' = <<<<CenterX - 2 * BLOCK_SIZE, CenterY>>,
                               <<CenterX - BLOCK_SIZE, CenterY>>,
                               <<CenterX, CenterY>>>>
                 /\ direction' = "RIGHT"
                 /\ apple' \in generate_apple
                 /\ power_ups' = << >>]_vars

\* the last life was lost on a wall, the snake left where it died
C13_Witness ==
    /\ pc = "events"
    /\ game_state = "GAME_OVER"
    /\ collision = "WALL"
    /\ lives = 0
    /\ ~ HeadInBounds

\* C14: a collision that leaves a life keeps the score, the challenge
\* settings, the challenge start time, the mission and the obstacles.
C14_NonFatalKeeps ==
    [][(pc = "collision" /\ collision' # "NONE" /\ lives' > 0) =>
          UNCHANGED <<score, challenge_mode, challenge_start_time,
                      current_mission, obstacles>>]_vars

\* a second life was lost with the points kept
C14_Witness ==
    /\ pc = "draw"
    /\ collision # "NONE"
    /\ lives = gameplay_initial_lives - 2
    /\ score >= AchievementReward("survival_master")
    /\ snake = InitialSnake

\* C15: after a handled collision the speed is the initial speed of the
\* session's difficulty tier.
C15_SpeedOfTier ==
    [][(pc = "collision" /\ collision' # "NONE") =>
          current_speed' = DIFFICULTY_LEVELS[difficulty].initial_speed]_vars

\* C16 as claimed: after the move the collision is resolved, then the pickup
\* check, then the achievements; the collision check does not follow them.
C16_OrderClaimed ==
    [][/\ pc = "move" => pc' \in {"collision", "hung"}
       /\ pc = "collision" => pc' \in {"power_up", "events"}
       /\ pc = "power_up" => pc' = "achievements"
       /\ pc = "achievements" => pc' # "collision"]_vars

\* C16 amended: a Playing iteration runs the challenge block, then
\* move_snake, then the pickup check, then the achievement evaluation, then
\* the collision check, then the drawing; pickups are counted only by the
\* pickup check, rewards granted only by the evaluation and lives taken only
\* by the collision check, which comes after both.
C16_TickOrder ==
    [][/\ (pc = "frame" /\ game_state = "PLAYING") =>
             pc' \in {"move", "events", "crashed"}
       /\ pc = "move" => pc' \in {"power_up", "hung"}
       /\ pc = "power_up" => pc' = "achievements"
       /\ pc = "achievements" => pc' = "collision"
       /\ pc = "collision" => pc' \in {"draw", "events"}
       /\ pc = "draw" => pc' = "events"
       /\ achievements'.power_ups_collected # achievements.power_ups_collected
             => pc = "power_up"
       /\ reward_grants' # reward_grants => pc = "achievements"
       /\ lives' < lives => pc = "collision"]_vars

\* a reward was granted in the first tick and that same tick's collision
\* then took a life
C16_Witness ==
    /\ pc = "draw"
    /\ now = 0
    /\ collision = "WALL"
    /\ reward_grants["survival_master"] = 1
    /\ lives = gameplay_initial_lives - 1
    /\ score = AchievementReward("survival_master")

\* the duration of a power-up type, and the query times tried for a
\* power-up: its creation, the instants around the end of its duration, one
\* well past it, and the current clock
TypeDuration(type) ==
    IF type = "speed_boost" THEN 5000
    ELSE IF type = "invincibility" THEN 3000
    ELSE 0
QueryTimes(pu) ==
    {now} \cup {pu.creation_time + k :
                   k \in {0, 1, TypeDuration(pu.power_type),
                          TypeDuration(pu.power_type) + 1,
                          2 * TypeDuration(pu.power_type) + 1}}

\* C17: is_expired of a power-up with duration D > 0 created at t0 is true
\* at every query time > t0 + D and false at every query time <= t0 + D; with
\* duration 0 it is false at every query time.
C17_IsExpired ==
    \A i \in 1 .. Len(power_ups) :
        LET pu == power_ups[i]
            D == TypeDuration(pu.power_type)
        IN \A q \in QueryTimes(pu) :
              is_expired(pu, q) <=> (D > 0 /\ q > pu.creation_time + D)

\* a timed power-up past its duration lies next to an instant one
C17_Witness ==
    \E i, j \in 1 .. Len(power_ups) :
        /\ power_ups[i].power_type \in {"speed_boost", "invincibility"}
        /\ now > power_ups[i].creation_time + TypeDuration(power_ups[i].power_type)
        /\ power_ups[j].power_type \in {"extra_points", "length_increase"}

\* stored score lists, sessions since a challenge and unlocked counts the
\* probability is tried on
MaxGamesSince == 4
ProbeScores == {0, 50, 51, 200}
ScoreHistories ==
    {<< >>}
    \cup {<<[score |-> a, timestamp |-> 0]>> : a \in ProbeScores}
    \cup {<<[score |-> a, timestamp |-> 0], [score |-> b, timestamp |-> 0]>> :
             a \in ProbeScores, b \in ProbeScores}
    \cup {<<[score |-> a, timestamp |-> 0], [score |-> b, timestamp |-> 0],
            [score |-> c, timestamp |-> 0]>> :
             a \in ProbeScores, b \in ProbeScores, c \in ProbeScores}

\* C18: when run starts, the probability for no games since a challenge, no
\* stored scores, no unlocked achievement and an off-peak hour is 20 percent,
\* and for every stored list, count of games, hour and count of unlocked
\* achievements it is between 10 and 75 percent.
C18_Probability ==
    pc = "setup" =>
        /\ (/\ games_since_challenge = 0
            /\ high_scores = << >>
            /\ achievements.unlocked = {}
            /\ current_hour(now) = 0) => session_probability(Self, now) = 20
        /\ \A hs \in ScoreHistories, g \in 0 .. MaxGamesSince,
              h \in 0 .. 23, a \in 0 .. Len(AchievementKeys) :
              /\ final_probability(hs, g, h, a) >= 10
              /\ final_probability(hs, g, h, a) <= 75

\* the draw against the 20 percent started a challenge
C18_Witness ==
    /\ pc = "events"
    /\ now = 0
    /\ challenge_mode.set
    /\ games_since_challenge = 0
    /\ high_scores = << >>

\* C19: whenever challenge mode is active a mission is set.
C19_MissionActive == challenge_mode.set => current_mission.set

\* C20: a Playing iteration with challenge mode active goes on without
\* failing: past the time limit the state becomes GAME_OVER and the snake is
\* not moved; otherwise, with the target score reached, 50 is added, the
\* challenge mode ends and the mission is cleared.
C20_ChallengeCheck ==
    [][(pc = "frame" /\ game_state = "PLAYING" /\ challenge_mode.set) =>
         /\ pc' \in {"move", "events"}
         /\ IF now - challenge_start_time > 1000 * challenge_mode.time_limit
            THEN game_state' = "GAME_OVER" /\ pc' = "events" /\ snake' = snake
            ELSE IF score >= challenge_mode.target_score
                 THEN /\ score' = score + 50
                      /\ ~ challenge_mode'.set
                      /\ ~ current_mission'.set
                 ELSE UNCHANGED <<score, challenge_mode, current_mission>>]_vars

\* move_snake is about to complete the active mission: the apple mission by
\* the apple that brings its progress to the goal, the speed mission of a
\* challenge by an apple eaten with the raised speed at the goal
MissionCompletes ==
    /\ WillEat
    /\ current_mission.set
    /\ \/ /\ current_mission.description = EAT_APPLES
          /\ current_mission.current_progress + 1 >= current_mission.goal
       \/ /\ challenge_mode.set
          /\ current_mission.description = REACH_MAX_SPEED
          /\ Min(current_speed + SpeedIncrement, MAX_SPEED) >= current_mission.goal

\* C21: the move_snake call that completes the active mission adds the
\* mission's reward to the score once and replaces the mission by a newly
\* drawn one with progress 0, so that no mission pays twice.
C21_MissionPaysOnce ==
    [][(pc = "move" /\ MissionCompletes) =>
         /\ score' = score + difficulty_config(difficulty).apple_score
                           + current_mission.reward
         /\ current_mission' \in create_mini_missions]_vars

\* C22: with a speed mission active in challenge mode, a tick in which
\* current_speed has reached the goal (by food or by a speed boost) ends
\* with the mission completed.
C22_CompletesOnReach ==
    (/\ pc = "draw"
     /\ challenge_mode.set
     /\ current_mission.set
     /\ current_mission.description = REACH_MAX_SPEED
     /\ current_speed >= current_mission.goal)
        => current_mission.current_progress >= current_mission.goal

\* C23: obstacles exist only while challenge mode is active.
C23_ObstaclesOnlyInChallenge == obstacles # {} => challenge_mode.set

\* C24: a call of generate_power_up returns, whatever the snake and the
\* power-up list: it never stays in its loop for ever.
C24_Returns == pc # "hung"

\* the cells of the power-ups of list l
PowerUpCells(l) == {<<l[i].x, l[i].y>> : i \in 1 .. Len(l)}

\* C25: a call of generate_power_up that returns has appended one power-up
\* on a grid cell that held no snake segment and no power-up when it was
\* drawn, and no two power-ups of a list share a position.
C25_SpawnOnFreeCell ==
    /\ [](\A i, j \in 1 .. Len(power_ups) :
             i # j => <<power_ups[i].x, power_ups[i].y>>
                        # <<power_ups[j].x, power_ups[j].y>>)
    /\ [][(pc = "generate" /\ pc' = "generated") =>
            /\ Len(power_ups') = Len(power_ups) + 1
            /\ SubSeq(power_ups', 1, Len(power_ups)) = power_ups
            /\ LET new == power_ups'[Len(power_ups')]
               IN /\ <<new.x, new.y>> \in Cells
                  /\ <<new.x, new.y>> \notin SeqToSet(snake)
                  /\ <<new.x, new.y>> \notin PowerUpCells(power_ups)
                  /\ new.power_type \in PowerUpTypes]_vars

\* a power-up was added to a board that held two, next to the snake's head
C25_Witness ==
    /\ pc = "generated"
    /\ Len(power_ups) = 3
    /\ Adjacent(<<power_ups[3].x, power_ups[3].y>>, SnakeHead(snake))
    /\ Cardinality(PowerUpCells(power_ups) \cup SeqToSet(snake))
         = Len(power_ups) + Len(snake)

\* the pickup check is about to apply an invincibility power-up
GrantsInvincibility ==
    /\ pc = "power_up"
    /\ UnderHead(Self) # {}
    /\ LET i == CHOOSE j \in UnderHead(Self) : \A k \in UnderHead(Self) : j <= k
       IN power_ups[i].power_type = "invincibility"

C27_RestartSavesScore ==
    [][/\ IsRestart =>
            /\ high_scores' = save_score(high_scores, score, now)
            /\ score' = 0
            /\ snake' = InitialSnake
            /\ lives' = gameplay_initial_lives
            /\ game_state' \in {"PLAYING", "PAUSED"}
       /\ high_scores' # high_scores => IsRestart]_vars

\* a round restarted after it ended with points: they are in the stored list
C27_Witness ==
    /\ pc = "frame"
    /\ game_state = "PLAYING"
    /\ score = 0
    /\ snake = InitialSnake
    /\ Len(high_scores) = 1
    /\ high_scores[1].score > 0
    /\ high_scores[1].score = high_score

\* C28: after any sequence of save_score calls the stored list has at most
\* 10 entries, all of them submitted, is sorted by score descending, holds
\* the highest scores submitted, and among equal scores an entry submitted
\* earlier is ahead of one submitted later, in the list and for the last
\* place in it.
C28_TopTen ==
    LET kept == SeqToSet(high_scores)
        dropped == SeqToSet(submitted) \ kept
    IN /\ Len(high_scores) = Min(Len(submitted), HighScoreKeep)
       /\ kept \subseteq SeqToSet(submitted)
       /\ \A i, j \in 1 .. Len(high_scores) :
             i < j => \/ high_scores[i].score > high_scores[j].score
                      \/ /\ high_scores[i].score = high_scores[j].score
                         /\ high_scores[i].timestamp < high_scores[j].timestamp
       /\ \A k \in kept, d \in dropped :
             \/ k.score > d.score
             \/ k.score = d.score /\ k.timestamp < d.timestamp

\* the list is full and the eleventh call, with the score of the tenth
\* place, was dropped
C28_Witness ==
    /\ pc = "save"
    /\ Len(submitted) = 11
    /\ Len(high_scores) = HighScoreKeep
    /\ submitted[11].score = high_scores[HighScoreKeep].score
    /\ submitted[11] \notin SeqToSet(high_scores)
    /\ high_scores[1].score > high_scores[HighScoreKeep].score

\* every sound name a call site emits
SoundNames == SoundFiles \cup {"achievement"}

\* the session with a handler loaded for every sound
AllLoaded == [Self EXCEPT !.sounds = SoundNames]

\* the attributes of session t are those of the state the step has led to,
\* the loaded sounds apart
SameGame(t) == [t EXCEPT !.sounds = sounds, !.stop = "NONE", !.ret = TRUE] = Self'

\* C29: a step of the tick that emits a sound with no loaded handler does
\* not end the tick, and leaves the state the same step leaves when the
\* sound has a handler.
C29_MissingSoundHarmless ==
    [][/\ pc \in {"move", "power_up", "achievements", "collision"} =>
            pc' \notin {"crashed", "exited"}
       /\ pc = "move" =>
            \E t \in move_snake(AllLoaded, now) :
               SameGame(t) /\ pc' = After(t, "power_up")
       /\ pc = "power_up" =>
            LET t == check_power_up_collision(AllLoaded, now)
            IN SameGame(t) /\ pc' = After(t, "achievements")
       /\ pc = "achievements" =>
            LET t == run_check_achievements(AllLoaded)
            IN SameGame(t) /\ pc' = After(t, "collision")
       /\ pc = "collision" =>
            \E ap \in generate_apple \cup {apple} :
               LET t == check_collision(AllLoaded, ap)
               IN SameGame(t)
                  /\ pc' = After(t, IF t.ret THEN "draw" ELSE "events")]_vars

\* no sound file loaded: the tick of an eaten apple went on to the pickup of
\* a power-up, to an achievement and to the drawing
C29_Witness ==
    /\ pc = "draw"
    /\ sounds = {}
    /\ achievements.total_apples_eaten = 2
    /\ achievements.power_ups_collected = 1
    /\ achievements.unlocked # {}
    /\ last_move # "NONE"
    /\ Len(snake) > 3

\* the changes of game_state C30 allows
StateEdges ==
    {<<"START", "PLAYING">>, <<"PLAYING", "PAUSED">>, <<"PAUSED", "PLAYING">>,
     <<"PLAYING", "GAME_OVER">>, <<"GAME_OVER", "PLAYING">>}

RECURSIVE EdgePaths(_)
\* the pairs of states joined by at most n allowed changes
EdgePaths(n) ==
    IF n = 0 THEN {<<g, g>> : g \in {"START", "PLAYING", "PAUSED", "GAME_OVER"}}
    ELSE EdgePaths(n - 1)
         \cup {<<x[1][1], x[2][2]>> : x \in {y \in EdgePaths(n - 1) \X StateEdges :
                                              y[1][2] = y[2][1]}}

\* the changes of game_state one handle_events call can chain
EventPaths == EdgePaths(MaxEvents)

\* C30: game_state changes only along START -> PLAYING, PLAYING -> PAUSED,
\* PAUSED -> PLAYING, PLAYING -> GAME_OVER and GAME_OVER -> PLAYING (one
\* change per event, one per other step of the loop); PLAYING -> GAME_OVER
\* happens only when a collision takes the last life or the challenge time
\* limit is exceeded; a PLAYING state has at least one life; in GAME_OVER
\* the snake, the score, the lives and the collision record stay as they
\* are until a restart.
C30_StateMachine ==
    [][/\ pc # "events" =>
            (game_state' = game_state \/ <<game_state, game_state'>> \in StateEdges)
       /\ pc = "events" => <<game_state, game_state'>> \in EventPaths
       /\ \A ev \in EventKinds :
             LET t == HandleEvent(Self, ev, {}, apple, now)
             IN \/ t.game_state = game_state
                \/ <<game_state, t.game_state>> \in StateEdges
       /\ (game_state = "PLAYING" /\ game_state' = "GAME_OVER") =>
             \/ /\ pc = "collision"
                /\ collision' # "NONE"
                /\ lives' = lives - 1
                /\ lives' <= 0
             \/ /\ pc = "frame"
                /\ challenge_mode.set
                /\ now - challenge_start_time > 1000 * challenge_mode.time_limit
       /\ game_state = "PLAYING" => lives >= 1
       /\ game_state' = "PLAYING" => lives' >= 1
       /\ (game_state = "GAME_OVER" /\ ~ IsRestart) =>
             UNCHANGED <<snake, score, lives, collision, direction, apple>>]_vars

\* a round that ended on its last life was restarted and then paused
C30_Witness ==
    /\ pc = "frame"
    /\ game_state = "PAUSED"
    /\ Len(submitted) = 1
    /\ collision # "NONE"
    /\ lives = gameplay_initial_lives

\* C31: generate_apple returns food on a cell that holds no snake segment:
\* the food that replaces an eaten one is on none of the segments of the
\* snake that has just eaten.
C31_AppleOffSnake ==
    [][(pc = "move" /\ WillEat /\ pc' = "power_up") =>
          <<apple'.x, apple'.y>> \notin SeqToSet(snake')]_vars

\* check_power_up_collision is about to apply a length_increase power-up
GrowsSnake ==
    /\ pc = "power_up"
    /\ UnderHead(Self) # {}
    /\ \A i \in UnderHead(Self) :
          (\A k \in UnderHead(Self) : i <= k) =>
              power_ups[i].power_type = "length_increase"

\* C32: grow_snake adds exactly one segment, in front of the tail at
\* tail + (tail - second segment), and the new cell is on none of the
\* segments the snake had (the head included), so the collision check of
\* the tick reports no self collision for a snake that did not overlap
\* itself before the growth.
C32_GrowNoCollision ==
    [][/\ GrowsSnake =>
            /\ Len(snake') = Len(snake) + 1
            /\ SubSeq(snake', 2, Len(snake')) = snake
            /\ snake'[1] = <<2 * snake[1][1] - snake[2][1],
                             2 * snake[1][2] - snake[2][2]>>
            /\ snake'[1] \notin SeqToSet(snake)
       /\ (/\ pc = "collision"
           /\ Len(snake) >= 4
           /\ SnakeHead(snake) \notin SeqToSet(SubSeq(snake, 2, Len(snake) - 1))) =>
              collision' # "SELF"]_vars

\* C33: every obstacle add_dynamic_obstacles returns is a grid cell of the
\* board that holds no snake segment and is not the cell of the food,
\* whether the food is static or moving.
C33_ObstaclesOnFreeCells ==
    pc = "placed" =>
       \A o \in obstacles :
          /\ o \in Cells
          /\ o \notin SeqToSet(snake)
          /\ o # <<apple.x, apple.y>>

\* C34: when a round starts, lives and current_speed are those of the
\* session's difficulty tier: in the first round of the session (the state
\* the constructor leaves) and after a restart from GAME_OVER.
C34_RoundStartOfTier ==
    /\ (pc = "setup" =>
          /\ lives = DIFFICULTY_LEVELS[difficulty].lives
          /\ current_speed = DIFFICULTY_LEVELS[difficulty].initial_speed)
    /\ [][IsRestart =>
            /\ lives' = DIFFICULTY_LEVELS[difficulty].lives
            /\ current_speed' = DIFFICULTY_LEVELS[difficulty].initial_speed]_vars

\* the pickup check is about to apply a speed boost
GrantsSpeedBoost ==
    /\ pc = "power_up"
    /\ UnderHead(Self) # {}
    /\ LET i == CHOOSE j \in UnderHead(Self) : \A k \in UnderHead(Self) : j <= k
       IN power_ups[i].power_type = "speed_boost"

\* C35: current_speed never exceeds the maximum speed; food eaten raises it
\* by 0.5 and a speed boost by 2, each capped at the maximum, and no other
\* step raises it.
C35_SpeedCapped ==
    /\ [](current_speed <= MAX_SPEED)
    /\ [][/\ (pc = "move" /\ WillEat /\ pc' = "power_up") =>
               current_speed' = Min(current_speed + SpeedIncrement, MAX_SPEED)
          /\ GrantsSpeedBoost =>
               current_speed' = Min(current_speed + SpeedBoostDelta, MAX_SPEED)
          /\ current_speed' > current_speed =>
               \/ pc = "move" /\ WillEat
               \/ GrantsSpeedBoost]_vars

\* a speed boost picked up within 2 of the maximum speed was capped
C35_Witness ==
    /\ pc = "achievements"
    /\ current_speed = MAX_SPEED
    /\ achievements.max_speed_reached + SpeedBoostDelta > MAX_SPEED
    /\ achievements.max_speed_reached < MAX_SPEED
    /\ achievements.total_apples_eaten >= 1

\* C36: at the start of a Playing tick with challenge mode active the
\* challenge start time is set (it is not None), and the run has not
\* failed on the elapsed-time comparison.
C36_StartTimeSet ==
    /\ (pc = "frame" /\ game_state = "PLAYING" /\ challenge_mode.set) =>
           challenge_start_time # NoTime
    /\ pc # "crashed"

\* C37: a restart from a GAME_OVER that the challenge time limit caused (the
\* only GAME_OVER with lives left) starts a playable round: the challenge
\* block of the first Playing tick after it lets the snake move instead of
\* ending the round again; reset_game leaves challenge_mode and the
\* challenge start time as they were.
C37_RestartPlayable ==
    [][(IsRestart /\ lives > 0 /\ game_state' = "PLAYING") =>
          /\ challenge_mode' = challenge_mode
          /\ challenge_start_time' = challenge_start_time
          /\ challenge_check(Self', now').game_state = "PLAYING"]_vars

\* two cells that differ by exactly one block in exactly one axis
OneBlockApart(a, b) ==
    \/ Abs(a[1] - b[1]) = BLOCK_SIZE /\ a[2] = b[2]
    \/ a[1] = b[1] /\ Abs(a[2] - b[2]) = BLOCK_SIZE

\* C38: the snake always has at least 3 segments and consecutive segments
\* differ by exactly one block in exactly one axis; moves, growth by food,
\* grow_snake and the respawn keep it so.
C38_SnakeContiguous ==
    /\ Len(snake) >= 3
    /\ \A i \in 1 .. Len(snake) - 1 : OneBlockApart(snake[i], snake[i + 1])

\* a snake that ate, turned and was grown by a length_increase power-up
C38_Witness ==
    /\ pc = "achievements"
    /\ Len(snake) = Len(InitialSnake) + 2
    /\ achievements.total_apples_eaten = 1
    /\ achievements.power_ups_collected = 1
    /\ \E i \in 1 .. Len(snake) - 1 : snake[i][1] = snake[i + 1][1]

\* C39: the difficulty multiplier is in [1.0, 1.5] at every speed
\* current_speed can have, so the settings run adopts have a time limit no
\* longer and a target score no smaller than those of the base draw (and
\* at most a factor 1.5 away from them), and the two flags stay as drawn:
\* the branch for a multiplier above 1.5 is not taken.
C39_MultiplierRange ==
    [][pc = "setup" =>
         LET m == DifficultyMultiplier(Self)
         IN /\ m[2] <= m[1]
            /\ 2 * m[1] <= 3 * m[2]
            /\ challenge_mode'.set =>
                 \E base \in create_challenge_mode :
                    /\ challenge_mode'.time_limit <= base.time_limit
                    /\ 3 * challenge_mode'.time_limit >= 2 * base.time_limit
                    /\ challenge_mode'.target_score >= base.target_score
                    /\ 2 * challenge_mode'.target_score <= 3 * base.target_score
                    /\ challenge_mode'.moving_walls = base.moving_walls
                    /\ challenge_mode'.special_apple_spawn = base.special_apple_spawn]_vars

\* a challenge adopted at the maximum speed: multiplier 1.5, the time limit
\* drawn as 30 cut to 20, the target drawn as 50 raised to 75
C39_Witness ==
    /\ pc = "events"
    /\ current_speed = MAX_SPEED
    /\ challenge_mode.set
    /\ challenge_mode.time_limit = 20
    /\ challenge_mode.target_score = 75
    /\ ~ challenge_mode.moving_walls
    /\ ~ challenge_mode.special_apple_spawn

\* C40: when a round that ended is reset, the longest_snake counter is at
\* least the length the snake had at the end of that round.
C40_LongestSnake ==
    [][IsRestart => achievements'.longest_snake >= Len(snake)]_vars

====
